---- MODULE Spec2Model ----
(***************************************************************************)
(* Model of crypto/hash/hmac_ossl.c: the HMAC-SHA1 srtp_auth_type_t that   *)
(* forwards to OpenSSL's HMAC_CTX.                                         *)
(*                                                                         *)
(* The heap is modelled explicitly: `a' are the callers' srtp_auth_t*      *)
(* slots, `mem' the srtp_auth_t blocks handed out by srtp_crypto_alloc,    *)
(* `hmac' the HMAC_CTX objects handed out by HMAC_CTX_new.  Every handler  *)
(* is an operator on a "world" record [a, mem, hmac, calls]; each library  *)
(* call it makes appends itself to `calls', so the order of the calls in   *)
(* the log is the order in which the handler composes them.                *)
(*                                                                         *)
(* Callers keep to the pointer discipline the interface assumes: alloc is  *)
(* called on a slot that holds no live context, every other handler on a   *)
(* live one.  The order of init, start, update and compute is free.        *)
(*                                                                         *)
(* Spec drives one caller slot through every argument the claims need;     *)
(* SpecPair drives two slots in any interleaving and keeps, beside the     *)
(* shared heap, what each slot's calls produce when made alone.            *)
(*                                                                         *)
(* OpenSSL is modelled by its contract.  What it leaves undefined (update  *)
(* or finalize on an HMAC_CTX that is not a started message, the state     *)
(* after a call it rejected) is a choice among its possible outcomes.      *)
(***************************************************************************)
EXTENDS Integers, Sequences, FiniteSets, TLC

(* ------------------------------ bounds -------------------------------- *)
NSlots   == 2      \* caller slots, blocks and HMAC_CTXs that exist
MaxMsg   == 2      \* most bytes fed to the engine between two resets

(* ----------------------- program constants ---------------------------- *)
SHA1_DIGEST_SIZE == 20
HALF_MOD         == 65536             \* 2^16: an unsigned int is two such halves

srtp_err_status_ok         == "srtp_err_status_ok"
srtp_err_status_bad_param  == "srtp_err_status_bad_param"
srtp_err_status_alloc_fail == "srtp_err_status_alloc_fail"
srtp_err_status_auth_fail  == "srtp_err_status_auth_fail"

NULL      == 0      \* the null pointer (blocks and handles are 1, 2, ...)
SRTP_HMAC == 1      \* the address of the srtp_hmac metaobject
EVP_sha1  == 1      \* the EVP_MD* returned by EVP_sha1()
GARBAGE   == 255    \* a non-zero fill of memory that was never written (a
                    \* value that no byte of a digest below takes)

(* ------------------------------ domains ------------------------------- *)
AllSlots == 1..NSlots
Slots    == {1}
Blocks   == 1..NSlots
Handles  == 1..NSlots
Byte     == {1, 2}                      \* the byte values messages are made of

RECURSIVE SeqsUpTo(_)
SeqsUpTo(n) == IF n = 0 THEN {<<>>}
               ELSE LET S == SeqsUpTo(n - 1)
                    IN  S \cup {Append(s, b) : s \in {t \in S : Len(t) = n - 1}, b \in Byte}

Msgs     == SeqsUpTo(MaxMsg)
KeyBufs  == {<<1, 1>>, <<1, 2>>}       \* the key buffers a caller passes
KeyLens  == {-1, 1, 2}                 \* key_len arguments of init
\* <<key_len, out_len>> arguments of alloc
AllocArgs == {<<16, 4>>, <<20, 20>>, <<16, -1>>, <<16, 21>>, <<20, 22>>}
TagLens  == {-1, 0, 19, 20, 21}        \* tag_len arguments of compute
AllTagLens == 0..(SHA1_DIGEST_SIZE + 2) \* ... every length around the legal range
Fills    == {0, GARBAGE}               \* prior content of allocated memory
ResultFills == {GARBAGE}               \* prior content of a result buffer

NoKey    == <<-1>>      \* no key schedule in the HMAC_CTX
IndetKey == <<-2>>      \* key schedule left indeterminate by a failed bind
NullBuf  == <<-3>>      \* a NULL key pointer

(* ---------------------- the keyed-hash primitive ---------------------- *)
\* Injective numbering of byte strings (their bytes as digits 1, 2 in base 3).
RECURSIVE Enc(_)
Enc(s) == IF s = <<>> THEN 0
          ELSE Enc(SubSeq(s, 1, Len(s) - 1)) * (Cardinality(Byte) + 1) + s[Len(s)]

\* Stand-in for HMAC-SHA1: a 20-byte digest that is a function of the key
\* and of the whole message, and differs whenever either differs.
HMAC_SHA1(key, msg) ==
    [i \in 1..SHA1_DIGEST_SIZE |->
        IF i % 2 = 1 THEN (Enc(key) + 3 * i) % 256
                     ELSE (Enc(msg) + 5 * i + 100) % 256]

\* What a finalize yields when the running state was not a started message.
GarbageDigests == { [i \in 1..SHA1_DIGEST_SIZE |-> 238],
                    [i \in 1..SHA1_DIGEST_SIZE |-> (7 * i) % 256] }

(* --------------------------- heap objects ----------------------------- *)
ZeroImage == [type |-> 0, state |-> 0, out_len |-> 0, key_len |-> 0, prefix_len |-> 0]
NoImage   == [type |-> -1, state |-> -1, out_len |-> -1, key_len |-> -1, prefix_len |-> -1]
FillImage(f) == [type |-> f, state |-> f, out_len |-> f, key_len |-> f, prefix_len |-> f]

\* srtp_auth_t block: its five fields plus whether the block is allocated.
FreeBlock == [live |-> FALSE, img |-> ZeroImage]

\* HMAC_CTX: md is the bound digest type, key the key schedule (i_ctx/o_ctx),
\* buf the bytes absorbed by md_ctx, phase the condition of md_ctx.
FreshCtx == [live |-> TRUE,  md |-> NULL, key |-> NoKey, buf |-> <<>>, phase |-> "new"]
DeadCtx  == [live |-> FALSE, md |-> NULL, key |-> NoKey, buf |-> <<>>, phase |-> "freed"]

\* A logged library call: its name, the image of the block it released (free
\* only) and the value it returned (0 for NULL, for failure and for void).
Call(fn, img, out) == [fn |-> fn, img |-> img, out |-> out]
Log(w, fn, img, out) == [w EXCEPT !.calls = Append(@, Call(fn, img, out))]

\* The allocators hand out the lowest-numbered object that is free.
LowestFree(F) ==
    IF F = {} THEN NULL ELSE CHOOSE x \in F : \A y \in F : x <= y

(* ------------------------- library calls ------------------------------ *)
\* srtp_crypto_alloc(sizeof(srtp_auth_t)): a free block or NULL.
srtp_crypto_alloc(w, fill, ok) ==
    LET f  == LowestFree({b \in Blocks : ~w.mem[b].live})
        p  == IF ok THEN f ELSE NULL
        w1 == Log(w, "srtp_crypto_alloc", NoImage, p)
    IN  IF p # NULL
        THEN [w |-> [w1 EXCEPT !.mem[p] = [live |-> TRUE, img |-> FillImage(fill)]],
              ptr |-> p]
        ELSE [w |-> w1, ptr |-> NULL]

\* srtp_crypto_free(p): the block is released with whatever it holds.
srtp_crypto_free(w, p) ==
    LET w1 == Log(w, "srtp_crypto_free", w.mem[p].img, 0)
    IN  [w1 EXCEPT !.mem[p].live = FALSE]

\* octet_string_set_to_zero(p, sizeof(srtp_auth_t))
octet_string_set_to_zero(w, p) ==
    LET w1 == Log(w, "octet_string_set_to_zero", NoImage, 0)
    IN  [w1 EXCEPT !.mem[p].img = ZeroImage]

\* HMAC_CTX_new(): a fresh, key-less HMAC_CTX or NULL.
HMAC_CTX_new(w, ok) ==
    LET f  == LowestFree({x \in Handles : ~w.hmac[x].live})
        h  == IF ok THEN f ELSE NULL
        w1 == Log(w, "HMAC_CTX_new", NoImage, h)
    IN  IF h # NULL
        THEN [w |-> [w1 EXCEPT !.hmac[h] = FreshCtx], ptr |-> h]
        ELSE [w |-> w1, ptr |-> NULL]

\* HMAC_CTX_free(h): cleanses and frees; a no-op on NULL.
HMAC_CTX_free(w, h) ==
    LET w1 == Log(w, "HMAC_CTX_free", NoImage, 0)
    IN  IF h = NULL THEN w1 ELSE [w1 EXCEPT !.hmac[h] = DeadCtx]

\* The engine calls below are OpenSSL's; each is given as a function of the
\* HMAC_CTX record e that yields the new record and the int returned, and is
\* then lifted to the world, where it logs itself with what it returned.
Lift(w, h, fn, r) ==
    [w |-> Log([w EXCEPT !.hmac[h] = r.e], fn, NoImage, r.ret), ret |-> r.ret] @@ r

\* HMAC_Init_ex(ctx, key, len, md, NULL).  `ok' is whether the engine's own
\* resources suffice; the other rejections are decided by the arguments.
\* A non-NULL key binds a new key schedule; a NULL key reuses the bound one.
\* Either way md_ctx restarts as an empty message.
Init_ex(e, key, len, md, ok) ==
    LET e1 == [e EXCEPT !.md = IF md # NULL THEN md ELSE e.md]
    IN  IF md # NULL /\ md # e.md /\ (key = NullBuf \/ len < 0)
        THEN [e |-> e, ret |-> 0]
        ELSE IF md = NULL /\ e.md = NULL
        THEN [e |-> e, ret |-> 0]
        ELSE IF key # NullBuf
        THEN IF len < 0
             THEN [e |-> e1, ret |-> 0]
             ELSE IF ~ok
             THEN [e |-> [e1 EXCEPT !.key = IndetKey, !.buf = <<>>, !.phase = "indet"],
                   ret |-> 0]
             ELSE [e |-> [e1 EXCEPT !.key = SubSeq(key, 1, len), !.buf = <<>>,
                                    !.phase = "running"],
                   ret |-> 1]
        ELSE IF e1.key = NoKey
             THEN [e |-> e1, ret |-> 0]
             ELSE IF ~ok
             THEN [e |-> [e1 EXCEPT !.buf = <<>>, !.phase = "indet"], ret |-> 0]
             ELSE [e |-> [e1 EXCEPT !.buf = <<>>,
                                    !.phase = IF e1.key = IndetKey THEN "indet"
                                                                   ELSE "running"],
                   ret |-> 1]

HMAC_Init_ex(w, h, key, len, md, ok) ==
    Lift(w, h, "HMAC_Init_ex", Init_ex(w.hmac[h], key, len, md, ok))

\* HMAC_Update(ctx, data, len).  On a started message the bytes are appended;
\* on a finalized or indeterminate md_ctx the outcome is not defined by the
\* library and `ok' picks it.
Update_ctx(e, data, len, ok) ==
    IF e.md = NULL
    THEN [e |-> e, ret |-> 0]
    ELSE IF e.phase = "running"
    THEN [e |-> [e EXCEPT !.buf = e.buf \o SubSeq(data, 1, len)], ret |-> 1]
    ELSE IF ok
    THEN [e |-> [e EXCEPT !.phase = "indet", !.buf = <<>>], ret |-> 1]
    ELSE [e |-> e, ret |-> 0]

HMAC_Update(w, h, data, len, ok) ==
    Lift(w, h, "HMAC_Update", Update_ctx(w.hmac[h], data, len, ok))

\* HMAC_Final(ctx, md, &len).  `g' is the digest an undefined finalize yields.
Final_ctx(e, ok, g) ==
    LET fin == [e EXCEPT !.phase = "final", !.buf = <<>>]
    IN  IF e.md = NULL
        THEN [e |-> e, ret |-> 0, md |-> g, len |-> 0]
        ELSE IF e.phase = "running"
        THEN [e |-> fin, ret |-> 1, md |-> HMAC_SHA1(e.key, e.buf),
              len |-> SHA1_DIGEST_SIZE]
        ELSE IF ok
        THEN [e |-> fin, ret |-> 1, md |-> g, len |-> SHA1_DIGEST_SIZE]
        ELSE [e |-> e, ret |-> 0, md |-> g, len |-> 0]

HMAC_Final(w, h, ok, g) ==
    Lift(w, h, "HMAC_Final", Final_ctx(w.hmac[h], ok, g))

(* ----------------------------- handlers ------------------------------- *)
\* Mutant: the srtp_auth_t is not released when HMAC_CTX_new fails.
srtp_hmac_alloc_ctx_leak(w, s, key_len, out_len, fill, memOK, ctxOK) ==
    LET r1 == srtp_crypto_alloc(w, fill, memOK)
        w2 == [r1.w EXCEPT !.a[s] = r1.ptr]
        p  == r1.ptr
    IN  IF p = NULL
        THEN [w |-> w2, ret |-> srtp_err_status_alloc_fail]
        ELSE LET r2 == HMAC_CTX_new(w2, ctxOK)
                 w3 == [r2.w EXCEPT !.mem[p].img.state = r2.ptr]
             IN  IF r2.ptr = NULL
                 THEN [w |-> [w3 EXCEPT !.a[s] = NULL],
                       ret |-> srtp_err_status_alloc_fail]
                 ELSE [w |-> [w3 EXCEPT !.mem[p].img.type = SRTP_HMAC,
                                        !.mem[p].img.out_len = out_len,
                                        !.mem[p].img.key_len = key_len,
                                        !.mem[p].img.prefix_len = 0],
                       ret |-> srtp_err_status_ok]

\* Mutant: prefix_len is never assigned.
srtp_hmac_alloc_ctx_noPrefix(w, s, key_len, out_len, fill, memOK, ctxOK) ==
    LET r1 == srtp_crypto_alloc(w, fill, memOK)
        w2 == [r1.w EXCEPT !.a[s] = r1.ptr]
        p  == r1.ptr
    IN  IF p = NULL
        THEN [w |-> w2, ret |-> srtp_err_status_alloc_fail]
        ELSE LET r2 == HMAC_CTX_new(w2, ctxOK)
                 w3 == [r2.w EXCEPT !.mem[p].img.state = r2.ptr]
             IN  IF r2.ptr = NULL
                 THEN [w |-> [srtp_crypto_free(w3, p) EXCEPT !.a[s] = NULL],
                       ret |-> srtp_err_status_alloc_fail]
                 ELSE [w |-> [w3 EXCEPT !.mem[p].img.type = SRTP_HMAC,
                                        !.mem[p].img.out_len = out_len,
                                        !.mem[p].img.key_len = key_len],
                       ret |-> srtp_err_status_ok]

\* Mutant: one HMAC_CTX serves every context: a live one is taken if there is
\* any, and a new one is created otherwise.
srtp_hmac_alloc_ctx_shared(w, s, key_len, out_len, fill, memOK, ctxOK) ==
    LET r1 == srtp_crypto_alloc(w, fill, memOK)
        w2 == [r1.w EXCEPT !.a[s] = r1.ptr]
        p  == r1.ptr
    IN  IF p = NULL
        THEN [w |-> w2, ret |-> srtp_err_status_alloc_fail]
        ELSE LET used == {h \in Handles : w2.hmac[h].live}
                 r2 == IF used # {} THEN [w |-> w2, ptr |-> LowestFree(used)]
                                    ELSE HMAC_CTX_new(w2, ctxOK)
                 w3 == [r2.w EXCEPT !.mem[p].img.state = r2.ptr]
             IN  IF r2.ptr = NULL
                 THEN [w |-> [srtp_crypto_free(w3, p) EXCEPT !.a[s] = NULL],
                       ret |-> srtp_err_status_alloc_fail]
                 ELSE [w |-> [w3 EXCEPT !.mem[p].img.type = SRTP_HMAC,
                                        !.mem[p].img.out_len = out_len,
                                        !.mem[p].img.key_len = key_len,
                                        !.mem[p].img.prefix_len = 0],
                       ret |-> srtp_err_status_ok]

\* srtp_hmac_alloc, after the length check: allocate the srtp_auth_t and its
\* HMAC_CTX, undo the former if the latter fails, set the fields.
srtp_hmac_alloc_ctx(w, s, key_len, out_len, fill, memOK, ctxOK) ==
    LET r1 == srtp_crypto_alloc(w, fill, memOK)
        w2 == [r1.w EXCEPT !.a[s] = r1.ptr]
        p  == r1.ptr
    IN  IF p = NULL
        THEN [w |-> w2, ret |-> srtp_err_status_alloc_fail]
        ELSE LET r2 == HMAC_CTX_new(w2, ctxOK)
                 w3 == [r2.w EXCEPT !.mem[p].img.state = r2.ptr]
             IN  IF r2.ptr = NULL
                 THEN [w |-> [srtp_crypto_free(w3, p) EXCEPT !.a[s] = NULL],
                       ret |-> srtp_err_status_alloc_fail]
                 ELSE [w |-> [w3 EXCEPT !.mem[p].img.type = SRTP_HMAC,
                                        !.mem[p].img.out_len = out_len,
                                        !.mem[p].img.key_len = key_len,
                                        !.mem[p].img.prefix_len = 0],
                       ret |-> srtp_err_status_ok]

\* Mutant: the length check is made only after the context has been built.
srtp_hmac_alloc_checkLate(w, s, key_len, out_len, fill, memOK, ctxOK) ==
    LET r == srtp_hmac_alloc_ctx(w, s, key_len, out_len, fill, memOK, ctxOK)
    IN  IF out_len > SHA1_DIGEST_SIZE
        THEN [w |-> r.w, ret |-> srtp_err_status_bad_param]
        ELSE r

\* srtp_hmac_alloc(&a[s], key_len, out_len)
srtp_hmac_alloc(w, s, key_len, out_len, fill, memOK, ctxOK) ==
    IF out_len > SHA1_DIGEST_SIZE
    THEN [w |-> w, ret |-> srtp_err_status_bad_param]
    ELSE srtp_hmac_alloc_ctx(w, s, key_len, out_len, fill, memOK, ctxOK)

\* Mutant: the block is released before it is zeroized.
srtp_hmac_dealloc_freeFirst(w, p) ==
    LET hmac_ctx == w.mem[p].img.state
        w1 == HMAC_CTX_free(w, hmac_ctx)
        w2 == srtp_crypto_free(w1, p)
        w3 == octet_string_set_to_zero(w2, p)
    IN  [w |-> w3, ret |-> srtp_err_status_ok]

\* srtp_hmac_dealloc(p)
srtp_hmac_dealloc(w, p) ==
    LET hmac_ctx == w.mem[p].img.state
        w1 == HMAC_CTX_free(w, hmac_ctx)
        w2 == octet_string_set_to_zero(w1, p)
        w3 == srtp_crypto_free(w2, p)
    IN  [w |-> w3, ret |-> srtp_err_status_ok]

\* Mutant: start reports ok without resetting the HMAC_CTX.
srtp_hmac_start_noReset(w, state, ok) ==
    [w |-> w, ret |-> srtp_err_status_ok]

\* Mutant: start passes an empty key instead of no key.
srtp_hmac_start_rebinds(w, state, ok) ==
    LET r == HMAC_Init_ex(w, state, <<>>, 0, NULL, ok)
    IN  IF r.ret = 0 THEN [w |-> r.w, ret |-> srtp_err_status_auth_fail]
                     ELSE [w |-> r.w, ret |-> srtp_err_status_ok]

\* srtp_hmac_start(state)
srtp_hmac_start(w, state, ok) ==
    LET r == HMAC_Init_ex(w, state, NullBuf, 0, NULL, ok)
    IN  IF r.ret = 0 THEN [w |-> r.w, ret |-> srtp_err_status_auth_fail]
                     ELSE [w |-> r.w, ret |-> srtp_err_status_ok]

\* Mutant: once a key is bound, init restarts the message under that key.
srtp_hmac_init_keepsKey(w, state, key, key_len, ok) ==
    LET k == IF w.hmac[state].key = NoKey THEN key ELSE NullBuf
        r == HMAC_Init_ex(w, state, k, key_len, EVP_sha1, ok)
    IN  IF r.ret = 0 THEN [w |-> r.w, ret |-> srtp_err_status_auth_fail]
                     ELSE [w |-> r.w, ret |-> srtp_err_status_ok]

\* srtp_hmac_init(state, key, key_len)
srtp_hmac_init(w, state, key, key_len, ok) ==
    LET r == HMAC_Init_ex(w, state, key, key_len, EVP_sha1, ok)
    IN  IF r.ret = 0 THEN [w |-> r.w, ret |-> srtp_err_status_auth_fail]
                     ELSE [w |-> r.w, ret |-> srtp_err_status_ok]

\* Mutant: update passes the engine one byte less than it was given.
srtp_hmac_update_short(w, state, message, msg_octets, ok) ==
    LET r == HMAC_Update(w, state, message, IF msg_octets > 0 THEN msg_octets - 1 ELSE 0, ok)
    IN  IF r.ret = 0 THEN [w |-> r.w, ret |-> srtp_err_status_auth_fail]
                     ELSE [w |-> r.w, ret |-> srtp_err_status_ok]

\* srtp_hmac_update(state, message, msg_octets)
srtp_hmac_update(w, state, message, msg_octets, ok) ==
    LET r == HMAC_Update(w, state, message, msg_octets, ok)
    IN  IF r.ret = 0 THEN [w |-> r.w, ret |-> srtp_err_status_auth_fail]
                     ELSE [w |-> r.w, ret |-> srtp_err_status_ok]

\* Mutant: the comparison is made signed, so a negative tag_len is below
\* every length (as if it were 0).
ToUnsigned_signed(n) ==
    IF n >= 0 THEN <<n \div HALF_MOD, n % HALF_MOD>> ELSE <<0, 0>>

\* `len < tag_len' compares an unsigned int with an int: tag_len is converted
\* to unsigned, i.e. taken modulo 2^32.  A 32-bit unsigned value is kept as
\* <<high half, low half>>; a negative n becomes 2^32 - 1 - (-n - 1).
ToUnsigned(n) ==
    IF n >= 0 THEN <<n \div HALF_MOD, n % HALF_MOD>>
    ELSE <<(HALF_MOD - 1) - ((-n - 1) \div HALF_MOD),
           (HALF_MOD - 1) - ((-n - 1) % HALF_MOD)>>

UnsignedLess(x, y) == x[1] < y[1] \/ (x[1] = y[1] /\ x[2] < y[2])

\* Mutant: the copy loop runs once too often (i <= tag_len).
CopyTag_offByOne(res, hash_value, tag_len) ==
    [i \in 1..Len(res) |-> IF i <= tag_len + 1 THEN hash_value[i] ELSE res[i]]

\* for (i = 0; i < tag_len; i++) result[i] = hash_value[i];
CopyTag(res, hash_value, tag_len) ==
    [i \in 1..Len(res) |-> IF i <= tag_len THEN hash_value[i] ELSE res[i]]

\* Mutant: the final segment is not absorbed before finalizing.
srtp_hmac_compute_tag_skipsFinal(w, state, message, msg_octets, tag_len, res, ok1, ok2, g) ==
    LET r1 == HMAC_Update(w, state, message, 0, ok1)
    IN  IF r1.ret = 0
        THEN [w |-> r1.w, ret |-> srtp_err_status_auth_fail, result |-> res]
        ELSE LET r2 == HMAC_Final(r1.w, state, ok2, g)
             IN  IF r2.ret = 0
                 THEN [w |-> r2.w, ret |-> srtp_err_status_auth_fail, result |-> res]
                 ELSE IF UnsignedLess(ToUnsigned(r2.len), ToUnsigned(tag_len))
                 THEN [w |-> r2.w, ret |-> srtp_err_status_auth_fail, result |-> res]
                 ELSE [w |-> r2.w, ret |-> srtp_err_status_ok,
                       result |-> CopyTag(res, r2.md, tag_len)]

\* Mutant: hash_value is copied to result before HMAC_Final's return value
\* and the digest length are looked at.
srtp_hmac_compute_tag_copyEarly(w, state, message, msg_octets, tag_len, res, ok1, ok2, g) ==
    LET r1 == HMAC_Update(w, state, message, msg_octets, ok1)
    IN  IF r1.ret = 0
        THEN [w |-> r1.w, ret |-> srtp_err_status_auth_fail, result |-> res]
        ELSE LET r2 == HMAC_Final(r1.w, state, ok2, g)
                 copied == CopyTag(res, r2.md, tag_len)
             IN  IF r2.ret = 0
                 THEN [w |-> r2.w, ret |-> srtp_err_status_auth_fail, result |-> copied]
                 ELSE IF UnsignedLess(ToUnsigned(r2.len), ToUnsigned(tag_len))
                 THEN [w |-> r2.w, ret |-> srtp_err_status_auth_fail, result |-> copied]
                 ELSE [w |-> r2.w, ret |-> srtp_err_status_ok, result |-> copied]

\* srtp_hmac_compute, after the length check: absorb the final segment,
\* finalize into hash_value, copy its first tag_len bytes to result.
srtp_hmac_compute_tag(w, state, message, msg_octets, tag_len, res, ok1, ok2, g) ==
    LET r1 == HMAC_Update(w, state, message, msg_octets, ok1)
    IN  IF r1.ret = 0
        THEN [w |-> r1.w, ret |-> srtp_err_status_auth_fail, result |-> res]
        ELSE LET r2 == HMAC_Final(r1.w, state, ok2, g)
             IN  IF r2.ret = 0
                 THEN [w |-> r2.w, ret |-> srtp_err_status_auth_fail, result |-> res]
                 ELSE IF UnsignedLess(ToUnsigned(r2.len), ToUnsigned(tag_len))
                 THEN [w |-> r2.w, ret |-> srtp_err_status_auth_fail, result |-> res]
                 ELSE [w |-> r2.w, ret |-> srtp_err_status_ok,
                       result |-> CopyTag(res, r2.md, tag_len)]

\* Mutant: the final segment is absorbed before the length check is made.
srtp_hmac_compute_checkLate(w, state, message, msg_octets, tag_len, res, ok1, ok2, g) ==
    IF tag_len > SHA1_DIGEST_SIZE
    THEN [w |-> HMAC_Update(w, state, message, msg_octets, ok1).w,
          ret |-> srtp_err_status_bad_param, result |-> res]
    ELSE srtp_hmac_compute_tag(w, state, message, msg_octets, tag_len, res, ok1, ok2, g)

\* Mutant: tag_len is also checked against the out_len of the context that
\* owns the HMAC_CTX.
srtp_hmac_compute_boundByOutLen(w, state, message, msg_octets, tag_len, res, ok1, ok2, g) ==
    IF \/ tag_len > SHA1_DIGEST_SIZE
       \/ \E p \in Blocks : /\ w.mem[p].live /\ w.mem[p].img.state = state
                            /\ tag_len > w.mem[p].img.out_len
    THEN [w |-> w, ret |-> srtp_err_status_bad_param, result |-> res]
    ELSE srtp_hmac_compute_tag(w, state, message, msg_octets, tag_len, res, ok1, ok2, g)

\* srtp_hmac_compute(state, message, msg_octets, tag_len, result)
srtp_hmac_compute(w, state, message, msg_octets, tag_len, res, ok1, ok2, g) ==
    IF tag_len > SHA1_DIGEST_SIZE
    THEN [w |-> w, ret |-> srtp_err_status_bad_param, result |-> res]
    ELSE srtp_hmac_compute_tag(w, state, message, msg_octets, tag_len, res, ok1, ok2, g)

(* ------------------------------- state -------------------------------- *)
VARIABLES
    a,       \* a[s]: the srtp_auth_t* held in caller slot s (NULL or a block)
    mem,     \* mem[p]: the srtp_auth_t block p
    hmac,    \* hmac[h]: the HMAC_CTX h
    calls,   \* the library calls made by the last operation, in order
    result,  \* the result buffer after the last operation (<<>> if it took none)
    last,    \* the last operation: its name, slot, arguments and status
    ghost,   \* ghost[s]: what the caller of slot s has asked for so far
    solo     \* solo[s]: the heap, status and result that the calls made on
             \* slot s produce when no other slot is used (kept by SpecPair)

vars == <<a, mem, hmac, calls, result, last, ghost, solo>>

World == [a |-> a, mem |-> mem, hmac |-> hmac, calls |-> <<>>]

Live(s) == a[s] # NULL /\ mem[a[s]].live
State(s) == mem[a[s]].img.state

\* The outcomes the library leaves open on HMAC_CTX h: a choice exists only
\* when md_ctx is not a started message.
Undefined(h) == hmac[h].md # NULL /\ hmac[h].phase # "running"
Outcomes(h)  == IF Undefined(h) THEN BOOLEAN ELSE {TRUE}
AnyDigest    == CHOOSE g \in GarbageDigests : TRUE
\* ... of compute's two engine calls: <<update accepted, finalize accepted,
\* digest of an accepted finalize>>
ComputeOutcomes(h) ==
    IF Undefined(h)
    THEN {<<FALSE, TRUE, AnyDigest>>, <<TRUE, FALSE, AnyDigest>>}
         \cup {<<TRUE, TRUE, g>> : g \in GarbageDigests}
    ELSE {<<TRUE, TRUE, AnyDigest>>}
\* The data passed only matters to a started message.
Inputs(h)    == IF hmac[h].phase = "running" THEN Msgs ELSE {<<>>}

\* ghost[s].key   the key of the last init that returned ok (NoKey if none did)
\* ghost[s].fed   the bytes passed since the last reset that returned ok, in
\*                call order (update segments, then compute's final segment)
\* ghost[s].cuts  in how many non-empty segments they were passed
\* ghost[s].upd   whether update was called since that reset
\* ghost[s].msg   "open" while every call since that reset returned ok,
\*                "done" once compute returned ok on an open message,
\*                "none" otherwise
\* ghost[s].by    which call opened the message: "init" or "start"
\* ghost[s].stale whether the engine had absorbed or finalized anything when
\*                that call was made
\* ghost[s].rekey whether the last init that returned ok replaced another key
\* ghost[s].again whether that call was a start made on a message that compute
\*                had completed under the same key
NoGhost == [key |-> NoKey, fed |-> <<>>, cuts |-> 0, upd |-> FALSE, msg |-> "none",
            by |-> "none", stale |-> FALSE, rekey |-> FALSE, again |-> FALSE]
Closed(g) == [g EXCEPT !.fed = <<>>, !.cuts = 0, !.upd = FALSE, !.msg = "none",
                       !.by = "none", !.stale = FALSE, !.again = FALSE]
Fed(g, message) == [g EXCEPT !.fed = @ \o message,
                             !.cuts = IF message = <<>> THEN @ ELSE @ + 1]

Used(h) == hmac[h].buf # <<>> \/ hmac[h].phase \in {"final", "indet"}

\* last.key_len  the key_len passed to alloc or init
\* last.len      the out_len passed to alloc, the tag_len passed to compute
\* last.fill     what the memory (alloc) or the result buffer (compute) held
Op(op, s, ret, n1, n2, fill) ==
    [op |-> op, slot |-> s, ret |-> ret, key_len |-> n1, len |-> n2, fill |-> fill]

Buffer(f) == [i \in 1..SHA1_DIGEST_SIZE |-> f]

\* The heap before any call, and a slot's solo record then.
EmptyWorld == [a |-> [s \in AllSlots |-> NULL], mem |-> [p \in Blocks |-> FreeBlock],
               hmac |-> [h \in Handles |-> DeadCtx], calls |-> <<>>]
NoSolo == [w |-> EmptyWorld, ret |-> srtp_err_status_ok, result |-> <<>>]

Init ==
    /\ a      = [s \in AllSlots |-> NULL]
    /\ mem    = [p \in Blocks |-> FreeBlock]
    /\ hmac   = [h \in Handles |-> DeadCtx]
    /\ calls  = <<>>
    /\ result = <<>>
    /\ last   = Op("none", 0, srtp_err_status_ok, 0, 0, 0)
    /\ ghost  = [s \in AllSlots |-> NoGhost]
    /\ solo   = [s \in AllSlots |-> NoSolo]

Commit(w) ==
    /\ a' = w.a
    /\ mem' = w.mem
    /\ hmac' = w.hmac
    /\ calls' = w.calls

(* ------------------------------ actions ------------------------------- *)
\* auth_type->alloc(&a[s], key_len, out_len) on a slot that holds no context
Alloc(s, Args) ==
    /\ ~Live(s)
    /\ UNCHANGED solo
    /\ \E arg \in Args, fill \in Fills,
          memOK \in BOOLEAN, ctxOK \in BOOLEAN :
          \E r \in {srtp_hmac_alloc(World, s, arg[1], arg[2], fill, memOK, ctxOK)} :
              /\ Commit(r.w)
              /\ result' = <<>>
              /\ last' = Op("alloc", s, r.ret, arg[1], arg[2], fill)
              /\ ghost' = [ghost EXCEPT ![s] = NoGhost]

\* auth_type->dealloc(a[s])
Dealloc(s) ==
    /\ Live(s)
    /\ UNCHANGED solo
    /\ \E r \in {srtp_hmac_dealloc(World, a[s])} :
           /\ Commit(r.w)
           /\ result' = <<>>
           /\ last' = Op("dealloc", s, r.ret, 0, 0, 0)
           /\ ghost' = [ghost EXCEPT ![s] = NoGhost]

\* auth_type->init(a[s]->state, key, key_len)
KeyInit(s, KB, KN) ==
    /\ Live(s)
    /\ UNCHANGED solo
    /\ \E key \in KB, key_len \in KN, ok \in BOOLEAN :
          \E r \in {srtp_hmac_init(World, State(s), key, key_len, ok)} :
              /\ Commit(r.w)
              /\ result' = <<>>
              /\ last' = Op("init", s, r.ret, key_len, 0, 0)
              /\ ghost' = [ghost EXCEPT ![s] =
                             IF r.ret = srtp_err_status_ok
                             THEN [key |-> SubSeq(key, 1, key_len), fed |-> <<>>,
                                   cuts |-> 0, upd |-> FALSE,
                                   msg |-> "open", by |-> "init",
                                   stale |-> Used(State(s)),
                                   rekey |-> ghost[s].key \notin
                                               {NoKey, SubSeq(key, 1, key_len)},
                                   again |-> FALSE]
                             ELSE NoGhost]

\* auth_type->start(a[s]->state)
Start(s) ==
    /\ Live(s)
    /\ UNCHANGED solo
    /\ \E ok \in BOOLEAN :
          \E r \in {srtp_hmac_start(World, State(s), ok)} :
              /\ Commit(r.w)
              /\ result' = <<>>
              /\ last' = Op("start", s, r.ret, 0, 0, 0)
              /\ ghost' = [ghost EXCEPT ![s] =
                             IF r.ret = srtp_err_status_ok /\ ghost[s].key # NoKey
                             THEN [Closed(@) EXCEPT !.msg = "open", !.by = "start",
                                                    !.stale = Used(State(s)),
                                                    !.again = (ghost[s].msg = "done")]
                             ELSE Closed(@)]

\* auth_type->update(a[s]->state, message, msg_octets)
Update(s) ==
    /\ Live(s)
    /\ UNCHANGED solo
    /\ \E message \in Inputs(State(s)), ok \in Outcomes(State(s)) :
          /\ Len(hmac[State(s)].buf) + Len(message) <= MaxMsg
          /\ \E r \in {srtp_hmac_update(World, State(s), message, Len(message), ok)} :
                 /\ Commit(r.w)
                 /\ result' = <<>>
                 /\ last' = Op("update", s, r.ret, 0, 0, 0)
                 /\ ghost' = [ghost EXCEPT ![s] =
                                IF r.ret = srtp_err_status_ok /\ ghost[s].msg = "open"
                                THEN [Fed(@, message) EXCEPT !.upd = TRUE]
                                ELSE Closed(@)]

\* auth_type->compute(a[s]->state, message, msg_octets, tag_len, result)
Compute(s, TL) ==
    /\ Live(s)
    /\ UNCHANGED solo
    /\ \E message \in Inputs(State(s)), tag_len \in TL, fill \in ResultFills,
          o \in ComputeOutcomes(State(s)) :
          /\ Len(hmac[State(s)].buf) + Len(message) <= MaxMsg
          /\ \E r \in {srtp_hmac_compute(World, State(s), message, Len(message),
                                        tag_len, Buffer(fill), o[1], o[2], o[3])} :
                 /\ Commit(r.w)
                 /\ result' = r.result
                 /\ last' = Op("compute", s, r.ret, 0, tag_len, fill)
                 /\ ghost' = [ghost EXCEPT ![s] =
                                IF r.ret = srtp_err_status_bad_param THEN @
                                ELSE IF r.ret = srtp_err_status_ok /\ ghost[s].msg = "open"
                                THEN [Fed(@, message) EXCEPT !.msg = "done"]
                                ELSE Closed(@)]

Next ==
    \E s \in Slots :
        \/ Alloc(s, AllocArgs)
        \/ Dealloc(s)
        \/ KeyInit(s, KeyBufs, KeyLens)
        \/ Start(s)
        \/ Update(s)
        \/ Compute(s, TagLens)

Spec == Init /\ [][Next]_vars

(* ------------------------- two contexts ------------------------------- *)
\* SpecPair: two callers, each with a slot of its own, call the handlers in
\* any interleaving.  Beside the shared heap, every call is also made on
\* solo[s].w, the heap as it is when slot s is the only one in use, with the
\* same arguments and the same answers of the library.
PairSlots     == {1, 2}
PairAllocArgs == {<<16, 20>>, <<16, 21>>}
PairKeyLens   == {2}
PairMsgs      == {<<>>, <<1>>, <<2>>}
PairTagLens   == {20}

SoloWorld(s) == [solo[s].w EXCEPT !.calls = <<>>]
SoloState(s) == solo[s].w.mem[solo[s].w.a[s]].img.state
\* The caller of slot s holds a context: it was allocated and not yet freed.
Owns(s) == solo[s].w.a[s] # NULL /\ solo[s].w.mem[solo[s].w.a[s]].live
Alone(s, q, res) == [solo EXCEPT ![s] = [w |-> q.w, ret |-> q.ret, result |-> res]]

PairAlloc(s) ==
    /\ ~Owns(s)
    /\ \E arg \in PairAllocArgs, memOK \in BOOLEAN, ctxOK \in BOOLEAN :
          \E r \in {srtp_hmac_alloc(World, s, arg[1], arg[2], 0, memOK, ctxOK)},
             q \in {srtp_hmac_alloc(SoloWorld(s), s, arg[1], arg[2], 0, memOK, ctxOK)} :
              /\ Commit(r.w)
              /\ result' = <<>>
              /\ last' = Op("alloc", s, r.ret, arg[1], arg[2], 0)
              /\ solo' = Alone(s, q, <<>>)
              /\ UNCHANGED ghost

PairDealloc(s) ==
    /\ Owns(s)
    /\ \E r \in {srtp_hmac_dealloc(World, a[s])},
          q \in {srtp_hmac_dealloc(SoloWorld(s), solo[s].w.a[s])} :
           /\ Commit(r.w)
           /\ result' = <<>>
           /\ last' = Op("dealloc", s, r.ret, 0, 0, 0)
           /\ solo' = Alone(s, q, <<>>)
           /\ UNCHANGED ghost

PairInit(s) ==
    /\ Owns(s)
    /\ \E key \in KeyBufs, key_len \in PairKeyLens, ok \in BOOLEAN :
          \E r \in {srtp_hmac_init(World, State(s), key, key_len, ok)},
             q \in {srtp_hmac_init(SoloWorld(s), SoloState(s), key, key_len, ok)} :
              /\ Commit(r.w)
              /\ result' = <<>>
              /\ last' = Op("init", s, r.ret, key_len, 0, 0)
              /\ solo' = Alone(s, q, <<>>)
              /\ UNCHANGED ghost

PairStart(s) ==
    /\ Owns(s)
    /\ \E ok \in BOOLEAN :
          \E r \in {srtp_hmac_start(World, State(s), ok)},
             q \in {srtp_hmac_start(SoloWorld(s), SoloState(s), ok)} :
              /\ Commit(r.w)
              /\ result' = <<>>
              /\ last' = Op("start", s, r.ret, 0, 0, 0)
              /\ solo' = Alone(s, q, <<>>)
              /\ UNCHANGED ghost

PairUpdate(s) ==
    /\ Owns(s)
    /\ \E message \in Inputs(State(s)) \cap PairMsgs, ok \in Outcomes(State(s)) :
          /\ Len(hmac[State(s)].buf) + Len(message) <= MaxMsg
          /\ \E r \in {srtp_hmac_update(World, State(s), message, Len(message), ok)},
                q \in {srtp_hmac_update(SoloWorld(s), SoloState(s), message,
                                        Len(message), ok)} :
                 /\ Commit(r.w)
                 /\ result' = <<>>
                 /\ last' = Op("update", s, r.ret, 0, 0, 0)
                 /\ solo' = Alone(s, q, <<>>)
                 /\ UNCHANGED ghost

PairCompute(s) ==
    /\ Owns(s)
    /\ \E message \in Inputs(State(s)) \cap PairMsgs, tag_len \in PairTagLens,
          fill \in ResultFills, o \in ComputeOutcomes(State(s)) :
          /\ Len(hmac[State(s)].buf) + Len(message) <= MaxMsg
          /\ \E r \in {srtp_hmac_compute(World, State(s), message, Len(message),
                                        tag_len, Buffer(fill), o[1], o[2], o[3])},
                q \in {srtp_hmac_compute(SoloWorld(s), SoloState(s), message,
                                         Len(message), tag_len, Buffer(fill),
                                         o[1], o[2], o[3])} :
                 /\ Commit(r.w)
                 /\ result' = r.result
                 /\ last' = Op("compute", s, r.ret, 0, tag_len, fill)
                 /\ solo' = Alone(s, q, q.result)
                 /\ UNCHANGED ghost

NextPair ==
    \E s \in PairSlots :
        \/ PairAlloc(s)
        \/ PairDealloc(s)
        \/ PairInit(s)
        \/ PairStart(s)
        \/ PairUpdate(s)
        \/ PairCompute(s)

SpecPair == Init /\ [][NextPair]_vars

TypeOK ==
    /\ a \in [AllSlots -> Blocks \cup {NULL}]
    /\ \A p \in Blocks : mem[p].live \in BOOLEAN
    /\ \A h \in Handles : hmac[h].phase \in {"new", "running", "final", "indet", "freed"}
    /\ last.ret \in {srtp_err_status_ok, srtp_err_status_bad_param,
                     srtp_err_status_alloc_fail, srtp_err_status_auth_fail}

(* ------------------------------ claims -------------------------------- *)
AllocCalls == {"srtp_crypto_alloc", "HMAC_CTX_new"}
EngineCalls == {"HMAC_Init_ex", "HMAC_Update", "HMAC_Final"}
Fns(cs) == [i \in 1..Len(cs) |-> cs[i].fn]

\* C1: alloc with out_len > 20 returns bad_param without having made any
\* library call (no memory, no HMAC_CTX), leaves the caller's slot and the
\* heap as they were, and the slot holds no context afterwards.
C1_AllocRejectsOversize ==
    [][ (last'.op = "alloc" /\ last'.len > SHA1_DIGEST_SIZE) =>
          /\ last'.ret = srtp_err_status_bad_param
          /\ calls' = <<>>
          /\ a' = a /\ mem' = mem /\ hmac' = hmac
          /\ ~(a'[last'.slot] # NULL /\ mem'[a'[last'.slot]].live) ]_vars

\* ... reached on a slot that still holds the pointer of a freed context
C1_Witness ==
    /\ last.op = "alloc" /\ last.len > SHA1_DIGEST_SIZE
    /\ last.ret = srtp_err_status_bad_param
    /\ a[last.slot] # NULL

\* C2 as stated: alloc with out_len <= 20 always succeeds.
C2_Original ==
    (last.op = "alloc" /\ last.len <= SHA1_DIGEST_SIZE) =>
        /\ last.ret = srtp_err_status_ok
        /\ Live(last.slot)
        /\ mem[a[last.slot]].img.key_len = last.key_len
        /\ mem[a[last.slot]].img.out_len = last.len
        /\ mem[a[last.slot]].img.prefix_len = 0

\* C2 (amended): alloc with out_len <= 20 returns ok unless srtp_crypto_alloc
\* or HMAC_CTX_new returned NULL (then alloc_fail); when it returns ok the slot
\* holds a newly allocated context with key_len and out_len as passed,
\* prefix_len 0, and an HMAC_CTX that was not allocated before, is held by no
\* other context and has no digest type, key or data.
C2_AllocYieldsContext ==
    [][ (last'.op = "alloc" /\ last'.len <= SHA1_DIGEST_SIZE) =>
          LET p == a'[last'.slot]
              okCalls == \A i \in 1..Len(calls') :
                            calls'[i].fn \in AllocCalls => calls'[i].out # NULL
          IN  /\ last'.ret \in {srtp_err_status_ok, srtp_err_status_alloc_fail}
              /\ (last'.ret = srtp_err_status_ok) <=> okCalls
              /\ last'.ret = srtp_err_status_ok =>
                   /\ p # NULL /\ mem'[p].live /\ ~mem[p].live
                   /\ mem'[p].img.type = SRTP_HMAC
                   /\ mem'[p].img.key_len = last'.key_len
                   /\ mem'[p].img.out_len = last'.len
                   /\ mem'[p].img.prefix_len = 0
                   /\ mem'[p].img.state # NULL
                   /\ ~hmac[mem'[p].img.state].live
                   /\ hmac'[mem'[p].img.state] = FreshCtx
                   /\ \A q \in Blocks \ {p} :
                         mem'[q].live => mem'[q].img.state # mem'[p].img.state ]_vars

\* ... a context built in memory that held garbage, with a negative-free,
\* non-trivial pair of lengths
C2_Witness ==
    /\ last.op = "alloc" /\ last.ret = srtp_err_status_ok
    /\ last.len = SHA1_DIGEST_SIZE /\ last.fill = GARBAGE
    /\ Live(last.slot)
    /\ hmac[State(last.slot)] = FreshCtx

\* C3: compute with tag_len > 20 returns bad_param whatever the condition of
\* the HMAC_CTX, without having made any engine call: the HMAC_CTX, the heap
\* and the result buffer are as they were.
C3_ComputeRejectsOversize ==
    [][ (last'.op = "compute" /\ last'.len > SHA1_DIGEST_SIZE) =>
          /\ last'.ret = srtp_err_status_bad_param
          /\ calls' = <<>>
          /\ hmac' = hmac /\ mem' = mem /\ a' = a
          /\ result' = Buffer(last'.fill) ]_vars

\* ... reached in the middle of a message (started, bytes absorbed)
C3_Witness ==
    /\ last.op = "compute" /\ last.len > SHA1_DIGEST_SIZE
    /\ last.ret = srtp_err_status_bad_param
    /\ Live(last.slot)
    /\ hmac[State(last.slot)].phase = "running"
    /\ hmac[State(last.slot)].buf # <<>>

\* The first t bytes of the MAC of msg under key.
TagOf(key, msg, t) == SubSeq(HMAC_SHA1(key, msg), 1, t)

\* The last operation was a compute that returned ok at the end of a message
\* whose calls all returned ok since it was opened.
Done(s) ==
    /\ last.op = "compute" /\ last.slot = s /\ last.ret = srtp_err_status_ok
    /\ ghost[s].msg = "done"

\* C4: the tag compute returns is the MAC, under the bound key, of the bytes
\* passed since the message was opened, concatenated in call order (update
\* segments, then the final segment), however they were split into segments;
\* while the message is open the engine holds exactly that concatenation.
C4_TagOfConcatenation ==
    \A s \in Slots :
        /\ Done(s) =>
             SubSeq(result, 1, last.len) = TagOf(ghost[s].key, ghost[s].fed, last.len)
        /\ (Live(s) /\ ghost[s].msg = "open") =>
             /\ hmac[State(s)].phase = "running"
             /\ hmac[State(s)].buf = ghost[s].fed

\* ... a two-byte message passed as two one-byte segments, in the order 1, 2
C4_Witness ==
    /\ Done(1)
    /\ ghost[1].fed = <<1, 2>> /\ ghost[1].cuts = 2
    /\ last.len = SHA1_DIGEST_SIZE
    /\ result = HMAC_SHA1(ghost[1].key, <<1, 2>>)
    /\ result # HMAC_SHA1(ghost[1].key, <<2, 1>>)

\* C5: whenever compute with tag_len = t returns ok, compute with tag_len = 20
\* on the same context and final segment returns ok too, and the result of the
\* former is the first t bytes of the result of the latter followed by what
\* the buffer held; at the end of a message the result is the first t bytes
\* of the native digest, in order, and nothing else is written.
\* (The comparison of the two calls reads the heap only.  Every heap a compute
\* can find is also found after another call, since a rejected update leaves
\* the heap as compute left it, so the comparison is made after other calls.)
C5_Truncation ==
    \A s \in Slots :
        /\ (Live(s) /\ last.op # "compute") =>
             \A message \in Inputs(State(s)),
                o \in {x \in ComputeOutcomes(State(s)) : x[1] /\ x[2]} :
                Len(hmac[State(s)].buf) + Len(message) <= MaxMsg =>
                  \A rf \in {srtp_hmac_compute(World, State(s), message, Len(message),
                                               SHA1_DIGEST_SIZE, Buffer(GARBAGE),
                                               o[1], o[2], o[3])} :
                     \A t \in AllTagLens :
                        \A rt \in {srtp_hmac_compute(World, State(s), message,
                                                     Len(message), t, Buffer(GARBAGE),
                                                     o[1], o[2], o[3])} :
                           rt.ret = srtp_err_status_ok =>
                              /\ rf.ret = srtp_err_status_ok
                              /\ t <= SHA1_DIGEST_SIZE
                              /\ rt.result = SubSeq(rf.result, 1, t)
                                               \o SubSeq(Buffer(GARBAGE), t + 1,
                                                         SHA1_DIGEST_SIZE)
        /\ Done(s) =>
             result = TagOf(ghost[s].key, ghost[s].fed, last.len)
                        \o SubSeq(Buffer(last.fill), last.len + 1, SHA1_DIGEST_SIZE)

\* ... a tag truncated to 19 bytes: byte 19 is the digest's, byte 20 untouched
C5_Witness ==
    /\ Done(1)
    /\ last.len = SHA1_DIGEST_SIZE - 1
    /\ result[last.len] = HMAC_SHA1(ghost[1].key, ghost[1].fed)[last.len]
    /\ result[SHA1_DIGEST_SIZE] = last.fill
    /\ result[SHA1_DIGEST_SIZE] # HMAC_SHA1(ghost[1].key, ghost[1].fed)[SHA1_DIGEST_SIZE]

\* C6: a compute that returns ok directly after a start that returned ok on a
\* key-bound context yields the MAC, under the bound key, of its own final
\* segment alone (of the empty message when that segment is empty).
C6_StartThenCompute ==
    [][ (/\ last.op = "start" /\ last.ret = srtp_err_status_ok
         /\ ghost[last.slot].msg = "open"
         /\ last'.op = "compute" /\ last'.slot = last.slot
         /\ last'.ret = srtp_err_status_ok) =>
          \E m \in Msgs :
             /\ ghost'[last.slot].fed = m
             /\ ghost'[last.slot].cuts = (IF m = <<>> THEN 0 ELSE 1)
             /\ SubSeq(result', 1, last'.len) = TagOf(ghost[last.slot].key, m, last'.len) ]_vars

\* ... the full MAC of the empty message, no update since the start, on an
\* engine that had absorbed data before that start
C6_Witness ==
    /\ Done(1)
    /\ ghost[1].by = "start" /\ ~ghost[1].upd /\ ghost[1].stale
    /\ ghost[1].fed = <<>> /\ last.len = SHA1_DIGEST_SIZE
    /\ result = HMAC_SHA1(ghost[1].key, <<>>)

\* C7: an init that returns ok leaves the engine with the new key and an empty
\* message, whatever it held; after an init that replaced another key, every
\* tag is the MAC under the new key of the bytes passed since the message was
\* opened, which is no earlier than that init.
C7_KeyRotation ==
    [][ /\ (last'.op = "init" /\ last'.ret = srtp_err_status_ok) =>
             /\ hmac'[State(last'.slot)].key = ghost'[last'.slot].key
             /\ hmac'[State(last'.slot)].buf = <<>>
             /\ hmac'[State(last'.slot)].phase = "running"
             /\ ghost'[last'.slot].fed = <<>>
        /\ \A s \in Slots :
             /\ (Done(s)' /\ ghost'[s].rekey) =>
                  SubSeq(result', 1, last'.len)
                     = TagOf(ghost'[s].key, ghost'[s].fed, last'.len)
             /\ (Live(s)' /\ ghost'[s].msg # "none" /\ ghost'[s].rekey) =>
                  hmac'[State(s)'].key = ghost'[s].key ]_vars

\* ... the second init arrived in the middle of a message and the compute
\* followed it without a start
C7_Witness ==
    /\ Done(1)
    /\ ghost[1].rekey /\ ghost[1].by = "init" /\ ghost[1].stale
    /\ ghost[1].fed # <<>>
    /\ last.len = SHA1_DIGEST_SIZE

\* C8: a start that returns ok empties the engine's running message and keeps
\* its key; the tag of a message opened by start is the MAC, under the key of
\* the last init, of the bytes passed after that start only.
C8_StartResets ==
    [][ /\ (last'.op = "start" /\ last'.ret = srtp_err_status_ok) =>
             /\ hmac'[State(last'.slot)].buf = <<>>
             /\ hmac'[State(last'.slot)].key = hmac[State(last'.slot)].key
             /\ hmac'[State(last'.slot)].md = hmac[State(last'.slot)].md
             /\ mem' = mem /\ a' = a
        /\ \A s \in Slots :
             (Done(s)' /\ ghost'[s].by = "start") =>
                /\ hmac'[State(s)'].key = ghost'[s].key
                /\ SubSeq(result', 1, last'.len)
                     = TagOf(ghost'[s].key, ghost'[s].fed, last'.len) ]_vars

\* ... bytes had been absorbed before the start, and others were passed after
C8_Witness ==
    /\ Done(1)
    /\ ghost[1].by = "start" /\ ghost[1].stale /\ ghost[1].upd
    /\ ghost[1].cuts = 2
    /\ last.len = SHA1_DIGEST_SIZE

\* C9: dealloc calls HMAC_CTX_free, octet_string_set_to_zero and
\* srtp_crypto_free in this order; the block is all zero when it is released;
\* the HMAC_CTX and the block are gone; it returns ok.
C9_DeallocOrder ==
    [][ (last'.op = "dealloc") =>
          /\ last'.ret = srtp_err_status_ok
          /\ Fns(calls') = <<"HMAC_CTX_free", "octet_string_set_to_zero",
                             "srtp_crypto_free">>
          /\ calls'[3].img = ZeroImage
          /\ mem[a[last'.slot]].live /\ ~mem'[a[last'.slot]].live
          /\ hmac[mem[a[last'.slot]].img.state].live
          /\ ~hmac'[mem[a[last'.slot]].img.state].live ]_vars

\* ... a dealloc whose last call released an all-zero block
C9_Witness ==
    /\ last.op = "dealloc" /\ last.ret = srtp_err_status_ok
    /\ Len(calls) = 3 /\ calls[3].fn = "srtp_crypto_free"
    /\ calls[3].img = ZeroImage
    /\ ~mem[a[last.slot]].live

\* C10: when out_len <= 20 and srtp_crypto_alloc or HMAC_CTX_new returns NULL,
\* alloc returns alloc_fail, the slot is NULL, and nothing that was allocated
\* during the call is still allocated: a block it obtained has been released.
C10_AllocFailureReleases ==
    [][ (/\ last'.op = "alloc" /\ last'.len <= SHA1_DIGEST_SIZE
         /\ \E i \in 1..Len(calls') :
               calls'[i].fn \in AllocCalls /\ calls'[i].out = NULL) =>
          /\ last'.ret = srtp_err_status_alloc_fail
          /\ a'[last'.slot] = NULL
          /\ \A p \in Blocks : mem'[p].live = mem[p].live
          /\ \A h \in Handles : hmac'[h].live = hmac[h].live
          /\ \A i \in 1..Len(calls') :
                (calls'[i].fn = "srtp_crypto_alloc" /\ calls'[i].out # NULL) =>
                   \E j \in (i + 1)..Len(calls') : calls'[j].fn = "srtp_crypto_free" ]_vars

\* ... the HMAC_CTX could not be created after the block had been obtained
C10_Witness ==
    /\ last.op = "alloc" /\ last.ret = srtp_err_status_alloc_fail
    /\ Fns(calls) = <<"srtp_crypto_alloc", "HMAC_CTX_new", "srtp_crypto_free">>
    /\ calls[1].out # NULL
    /\ a[last.slot] = NULL

\* The status of the last operation, read off the calls it made.
Rejected(cs) == \E i \in 1..Len(cs) : cs[i].fn \in EngineCalls /\ cs[i].out = 0
Finalized(cs) == \E i \in 1..Len(cs) : cs[i].fn = "HMAC_Final" /\ cs[i].out # 0

\* C11 as stated: every status is one of the four; init, start and update
\* return auth_fail exactly when their engine call was rejected and ok
\* otherwise; compute with tag_len <= 20 returns auth_fail exactly when the
\* absorb or the finalize was rejected or the finalized digest (20 bytes) is
\* shorter than tag_len, and ok otherwise; bad_param comes only from the size
\* checks of alloc and compute, alloc_fail only from alloc.
C11_Original ==
    [][ /\ last'.ret \in {srtp_err_status_ok, srtp_err_status_bad_param,
                          srtp_err_status_alloc_fail, srtp_err_status_auth_fail}
        /\ last'.op \in {"init", "start", "update"} =>
             /\ Len(calls') = 1 /\ calls'[1].fn \in EngineCalls
             /\ last'.ret = (IF Rejected(calls') THEN srtp_err_status_auth_fail
                                                 ELSE srtp_err_status_ok)
        /\ (last'.op = "compute" /\ last'.len <= SHA1_DIGEST_SIZE) =>
             last'.ret = (IF \/ Rejected(calls')
                             \/ Finalized(calls') /\ SHA1_DIGEST_SIZE < last'.len
                          THEN srtp_err_status_auth_fail
                          ELSE srtp_err_status_ok)
        /\ last'.ret = srtp_err_status_bad_param =>
             /\ last'.op \in {"alloc", "compute"}
             /\ last'.len > SHA1_DIGEST_SIZE
        /\ last'.ret = srtp_err_status_alloc_fail => last'.op = "alloc" ]_vars

\* C12 as stated: whenever a context's memory is released, on every path, it
\* has been zero-filled first: each srtp_crypto_free is preceded in the same
\* operation by octet_string_set_to_zero and releases an all-zero block.
C12_Original ==
    [][ \A j \in 1..Len(calls') :
          calls'[j].fn = "srtp_crypto_free" =>
             /\ \E i \in 1..(j - 1) : calls'[i].fn = "octet_string_set_to_zero"
             /\ calls'[j].img = ZeroImage ]_vars

\* C13: start, update and compute, whatever they return, leave the key of the
\* HMAC_CTX as it was; the tag of every completed message, the first after an
\* init or a later one, is the MAC under the key of the last init of the bytes
\* passed since that message was opened; a start that returns ok on a
\* key-bound, finalized HMAC_CTX leaves it started on an empty message.
C13_KeyPersists ==
    [][ /\ last'.op \in {"start", "update", "compute"} =>
             /\ mem' = mem /\ a' = a
             /\ hmac'[State(last'.slot)].key = hmac[State(last'.slot)].key
             /\ ghost'[last'.slot].key = ghost[last'.slot].key
        /\ \A s \in Slots :
             Done(s)' =>
                /\ hmac'[State(s)'].key = ghost'[s].key
                /\ SubSeq(result', 1, last'.len)
                     = TagOf(ghost'[s].key, ghost'[s].fed, last'.len)
        /\ (/\ last'.op = "start" /\ last'.ret = srtp_err_status_ok
            /\ ghost[last'.slot].key # NoKey
            /\ hmac[State(last'.slot)].phase = "final") =>
             /\ hmac'[State(last'.slot)].phase = "running"
             /\ hmac'[State(last'.slot)].buf = <<>>
             /\ hmac'[State(last'.slot)].key = ghost[last'.slot].key ]_vars

\* ... the tag of a second message under the same key, opened by a start on
\* the finalized first one
C13_Witness ==
    /\ Done(1)
    /\ ghost[1].again /\ ghost[1].by = "start"
    /\ ghost[1].fed # <<>>
    /\ last.len = SHA1_DIGEST_SIZE
    /\ result = HMAC_SHA1(ghost[1].key, ghost[1].fed)

\* C14 (under SpecPair): two contexts that are both held have different blocks
\* and different HMAC_CTXs; whatever the interleaving, the status and the
\* result of every call equal those the same slot's calls produce when the
\* slot is used alone, and so does the context the call leaves (its fields
\* and its HMAC_CTX).
C14_Independent ==
    /\ \A s \in PairSlots :
          Owns(s) =>
             /\ Live(s) /\ hmac[State(s)].live
             /\ hmac[State(s)] = solo[s].w.hmac[SoloState(s)]
             /\ [mem[a[s]].img EXCEPT !.state = 0]
                   = [solo[s].w.mem[solo[s].w.a[s]].img EXCEPT !.state = 0]
             /\ \A t \in PairSlots \ {s} :
                   Owns(t) => a[s] # a[t] /\ State(s) # State(t)
    /\ last.op # "none" =>
          /\ last.ret = solo[last.slot].ret
          /\ result = solo[last.slot].result

\* ... a tag computed on context 2, which sits in another block and HMAC_CTX
\* than when used alone, under a key other than that of context 1, while
\* context 1 is in the middle of a message
C14_Witness ==
    /\ Owns(1) /\ Owns(2)
    /\ last.op = "compute" /\ last.slot = 2 /\ last.ret = srtp_err_status_ok
    /\ State(2) # SoloState(2) /\ a[2] # solo[2].w.a[2]
    /\ hmac[State(1)].phase = "running" /\ hmac[State(1)].buf # <<>>
    /\ hmac[State(1)].key \in KeyBufs /\ hmac[State(2)].key \in KeyBufs
    /\ hmac[State(1)].key # hmac[State(2)].key
    /\ \E m \in Msgs \ {<<>>} : result = HMAC_SHA1(hmac[State(2)].key, m)

\* C15: when compute returns anything but ok (bad_param, or auth_fail from
\* HMAC_Update, HMAC_Final or the length comparison) the result buffer holds
\* what it held before the call; when it returns ok, 0 <= tag_len <= 20, the
\* first tag_len bytes have been overwritten and every later byte holds what
\* it held before.
C15_ResultOnlyOnSuccess ==
    [][ last'.op = "compute" =>
          /\ last'.ret # srtp_err_status_ok => result' = Buffer(last'.fill)
          /\ last'.ret = srtp_err_status_ok =>
               /\ last'.len \in 0..SHA1_DIGEST_SIZE
               /\ \A i \in 1..SHA1_DIGEST_SIZE :
                     (result'[i] # last'.fill) <=> (i <= last'.len) ]_vars

\* ... a compute whose final segment was absorbed and whose finalize was
\* rejected: hash_value was never copied
C15_Witness ==
    /\ last.op = "compute" /\ last.ret = srtp_err_status_auth_fail
    /\ last.len = SHA1_DIGEST_SIZE
    /\ Fns(calls) = <<"HMAC_Update", "HMAC_Final">>
    /\ calls[1].out # 0 /\ calls[2].out = 0
    /\ result = Buffer(last.fill)

\* C16: compute with a negative tag_len never returns bad_param: it calls
\* HMAC_Update and, if that is accepted, HMAC_Final; if both are accepted the
\* HMAC_CTX is left finalized and the comparison of the digest length with
\* tag_len fails; in every case it returns auth_fail and the result buffer
\* holds what it held; on a started message both calls are accepted.  alloc with a negative out_len is not
\* rejected by the size check and stores out_len as passed.
C16_NegativeLengths ==
    [][ /\ (last'.op = "compute" /\ last'.len < 0) =>
             /\ last'.ret = srtp_err_status_auth_fail
             /\ result' = Buffer(last'.fill)
             /\ calls' # <<>> /\ calls'[1].fn = "HMAC_Update"
             /\ calls'[1].out # 0 =>
                  /\ Fns(calls') = <<"HMAC_Update", "HMAC_Final">>
                  /\ calls'[2].out # 0 => hmac'[State(last'.slot)].phase = "final"
             /\ hmac[State(last'.slot)].phase = "running" => ~Rejected(calls')
        /\ (last'.op = "alloc" /\ last'.len < 0) =>
             /\ last'.ret \in {srtp_err_status_ok, srtp_err_status_alloc_fail}
             /\ last'.ret = srtp_err_status_ok =>
                  mem'[a'[last'.slot]].img.out_len = last'.len ]_vars

\* ... on a started message under a bound key: both engine calls accepted,
\* the engine finalized, auth_fail returned
C16_Witness ==
    /\ last.op = "compute" /\ last.len < 0
    /\ last.ret = srtp_err_status_auth_fail
    /\ Fns(calls) = <<"HMAC_Update", "HMAC_Final">>
    /\ calls[1].out # 0 /\ calls[2].out # 0
    /\ hmac[State(last.slot)].phase = "final"
    /\ hmac[State(last.slot)].key \in {<<1, 1>>, <<1, 2>>}
    /\ mem[a[last.slot]].img.out_len < 0

\* C17: init, start, update and compute leave the srtp_auth_t (type, state,
\* key_len, out_len, prefix_len) as alloc set it; compute returns bad_param
\* only for tag_len > 20; on an open message compute with 0 <= tag_len <= 20
\* returns ok and yields the first tag_len bytes of the MAC, also when tag_len
\* exceeds the context's out_len.
C17_OutLenNotEnforced ==
    [][ /\ last'.op \in {"init", "start", "update", "compute"} =>
             /\ mem' = mem /\ a' = a
        /\ last'.op = "compute" =>
             /\ (last'.ret = srtp_err_status_bad_param) <=> (last'.len > SHA1_DIGEST_SIZE)
             /\ (/\ ghost[last'.slot].msg = "open"
                 /\ last'.len \in 0..SHA1_DIGEST_SIZE) =>
                  /\ last'.ret = srtp_err_status_ok
                  /\ SubSeq(result', 1, last'.len)
                       = TagOf(ghost'[last'.slot].key, ghost'[last'.slot].fed, last'.len)
                  /\ \A i \in 1..last'.len : result'[i] # last'.fill ]_vars

\* ... a full 20-byte tag from a context allocated with out_len 4
C17_Witness ==
    /\ Done(1)
    /\ mem[a[1]].img.out_len = 4 /\ mem[a[1]].img.key_len = 16
    /\ mem[a[1]].img.prefix_len = 0
    /\ last.len = SHA1_DIGEST_SIZE
    /\ result = HMAC_SHA1(ghost[1].key, ghost[1].fed)
====
